---- MODULE Spec2Model ----
(***************************************************************************)
(* Idea Hub: the Presentation Client (saas-frontend, the form page and the *)
(* results page), the Trends Provider (mcp-server, GET /api/trends and     *)
(* GET /api/health) and the Validation Orchestrator's contract.            *)
(*                                                                         *)
(* A JavaScript string is a sequence of one-character strings.             *)
(***************************************************************************)
EXTENDS Integers, Sequences, FiniteSets, TLC

VARIABLES
  route,      \* the page of the client that is mounted: "home" or "result"
  home,       \* Home's React state: idea, isLoading, error
  net,        \* handleSubmit's position: pc and the idea it closed over
  storage,    \* sessionStorage's entry 'validationResult'
  rp,         \* ResultPage's React state, its hasProcessed ref and its pending effects
  lastOp,     \* the client operation that ran last, with what it was given
              \* and the state it started from
  reqs,       \* the Trends Provider's requests, by slot
  exchange,   \* the Trends Provider's latest request/response event
  orch,       \* the Orchestrator's validation in progress
  batch,      \* the Orchestrator's batch in progress
  svc         \* SaasValidatorService's method call in progress

vars == <<route, home, net, storage, rp, lastOp, reqs, exchange, orch, batch, svc>>
clientVars == <<route, home, net, storage, rp, lastOp>>
trendsVars == <<reqs, exchange>>
orchVars == <<orch, batch>>
serviceVars == <<svc>>

(***************************************************************************)
(* Bounds                                                                  *)
(***************************************************************************)
MaxIdeaLen == 2
MaxReinvoke == 1
MaxKeywordsLen == 4
MaxReqs == 2
MaxBatch == 2

(***************************************************************************)
(* Strings                                                                 *)
(***************************************************************************)
\* the strings of at most n characters of an alphabet
StringsOver(alphabet, n) == UNION {[1..k -> alphabet] : k \in 0..n}

IsSpace(c) == c = " "

RECURSIVE TrimStart(_)
TrimStart(s) ==
  IF s # <<>> /\ IsSpace(Head(s)) THEN TrimStart(Tail(s)) ELSE s

RECURSIVE TrimEnd(_)
TrimEnd(s) ==
  IF s # <<>> /\ IsSpace(s[Len(s)]) THEN TrimEnd(SubSeq(s, 1, Len(s) - 1)) ELSE s

\* String.prototype.trim
Trim(s) == TrimEnd(TrimStart(s))

(***************************************************************************)
(* JSON.  A value is JNull or an object: a function from its keys to their *)
(* values.  A JSON text is a sequence of tokens [k, v], v a sequence of    *)
(* strings: a brace, "null", or one field of an object.                    *)
(***************************************************************************)
JNull == [type |-> "null"]

KeyOrder ==
  <<"success", "query", "recommendations", "trends_data", "opportunity_score",
    "risk_score", "recommendation", "processing_time", "error">>

NumberKeys == {"opportunity_score", "risk_score", "processing_time"}
Digits == 0..10

Tok(k, v) == [k |-> k, v |-> v]

EncodeField(k, x) ==
  CASE k = "success" -> <<IF x THEN "true" ELSE "false">>
    [] k = "query" -> x
    [] k = "recommendations" -> x
    [] k \in NumberKeys -> <<ToString(x)>>
    [] OTHER -> <<x>>

DecodeField(k, t) ==
  CASE k = "success" -> t = <<"true">>
    [] k = "query" -> t
    [] k = "recommendations" -> t
    [] k \in NumberKeys -> CHOOSE n \in Digits : ToString(n) = t[1]
    [] OTHER -> t[1]

FieldOk(k, t) ==
  CASE k = "success" -> t \in {<<"true">>, <<"false">>}
    [] k = "query" -> TRUE
    [] k = "recommendations" -> TRUE
    [] k \in NumberKeys -> Len(t) = 1 /\ \E n \in Digits : ToString(n) = t[1]
    [] OTHER -> Len(t) = 1

PresentKeys(obj) == SelectSeq(KeyOrder, LAMBDA k : k \in DOMAIN obj)

\* JSON.stringify
Stringify(val) ==
  IF val = JNull THEN <<Tok("null", <<>>)>>
  ELSE LET ks == PresentKeys(val) IN
       <<Tok("{", <<>>)>>
         \o [i \in 1..Len(ks) |-> Tok(ks[i], EncodeField(ks[i], val[ks[i]]))]
         \o <<Tok("}", <<>>)>>

Keys == {KeyOrder[i] : i \in 1..Len(KeyOrder)}

IsObjectText(text) ==
  /\ Len(text) >= 2
  /\ text[1].k = "{"
  /\ text[Len(text)].k = "}"
  /\ \A i \in 2..(Len(text) - 1) : text[i].k \in Keys /\ FieldOk(text[i].k, text[i].v)
  /\ \A i, j \in 2..(Len(text) - 1) : text[i].k = text[j].k => i = j

\* JSON.parse returns a value for these texts and throws SyntaxError for the others
CanParse(text) == text = <<Tok("null", <<>>)>> \/ IsObjectText(text)

\* JSON.parse
Parse(text) ==
  IF text = <<Tok("null", <<>>)>> THEN JNull
  ELSE LET at(k) == CHOOSE i \in 2..(Len(text) - 1) : text[i].k = k IN
       [k \in {"type"} \cup {text[i].k : i \in 2..(Len(text) - 1)} |->
          IF k = "type" THEN "object" ELSE DecodeField(k, text[at(k)].v)]

\* a JavaScript value in a condition: null, undefined and '' are falsy
Truthy(val) == val # JNull

(***************************************************************************)
(* What the Orchestrator can answer POST /validate with                    *)
(***************************************************************************)
FullResult(q) ==
  [type |-> "object", success |-> TRUE, query |-> q, recommendations |-> <<"rec">>,
   trends_data |-> "series", opportunity_score |-> 7, risk_score |-> 4,
   recommendation |-> "BUILD", processing_time |-> 2]

NoTrendsResult(q) ==
  [type |-> "object", success |-> TRUE, query |-> q,
   recommendations |-> <<"rec", "no trend data">>, opportunity_score |-> 5,
   risk_score |-> 5, recommendation |-> "VALIDATE", processing_time |-> 2]

FailedResult(q) ==
  [type |-> "object", success |-> FALSE, query |-> q, recommendations |-> <<>>,
   error |-> "model failure"]

NotJson == <<Tok("<", <<>>)>>

BodyTexts(q) ==
  {Stringify(FullResult(q)), Stringify(NoTrendsResult(q)), Stringify(FailedResult(q)),
   Stringify(JNull), NotJson}

StatusOK == 200
StatusBadRequest == 400
StatusServerError == 500

\* Response.ok
Ok(status) == status \in 200..299

\* how the fetch of handleSubmit settles: it rejects, or resolves with a response
Outcomes(q) ==
  {[kind |-> "rejected"]}
    \cup {[kind |-> "response", status |-> st, body |-> b] :
            st \in {StatusOK, StatusServerError}, b \in BodyTexts(q)}

(***************************************************************************)
(* Presentation Client: state                                              *)
(***************************************************************************)
\* null, where the state is a string or null
Null == "null"

IdeaAlphabet == {"a", " "}
Ideas == StringsOver(IdeaAlphabet, MaxIdeaLen)

NoItem == [has |-> FALSE]
Item(text) == [has |-> TRUE, text |-> text]

GenericSubmitError == "Failed to validate idea. Please try again."
NoDataError == "No result data found. Please start a new analysis."
InvalidDataError == "Invalid result data format. Please start a new analysis."

\* useState('') / useState(false) / useState(null) of Home
HomeInit == [idea |-> <<>>, isLoading |-> FALSE, error |-> Null]

NetIdle == [pc |-> "idle", query |-> <<>>, sent |-> 0]

\* the first render of ResultPage: its useState and useRef initial values, and the
\* two effects of the mount pass, which close over the first render's result
ResultPageInit ==
  [result |-> JNull, loading |-> TRUE, error |-> Null, hasProcessed |-> FALSE,
   rendered |-> JNull, queue |-> <<"setup", "clear">>,
   setupRuns |-> 0, processed |-> 0, reinvoked |-> 0, crashed |-> FALSE]

InitClient ==
  /\ route = "home"
  /\ home = HomeInit
  /\ net = NetIdle
  /\ storage = NoItem
  /\ rp = ResultPageInit
  /\ lastOp = [op |-> "load"]

(***************************************************************************)
(* Home (the form page)                                                    *)
(***************************************************************************)
IsBlankNoTrim(idea) == idea = <<>>

\* !idea.trim()
IsBlank(idea) == Trim(idea) = <<>>

\* the submit button's disabled attribute
ButtonDisabledWhenBlank == IsBlank(home.idea)

ButtonDisabled == IsBlank(home.idea) \/ home.isLoading

\* the textarea's disabled attribute
TextareaDisabled == home.isLoading

\* the textarea's onChange
SetIdea(s) ==
  /\ route = "home"
  /\ ~TextareaDisabled
  /\ home' = [home EXCEPT !.idea = s]
  /\ lastOp' = [op |-> "setIdea"]
  /\ UNCHANGED <<route, net, storage, rp>>
  /\ UNCHANGED <<trendsVars, orchVars, serviceVars>>

\* handleSubmit up to its first await
HandleSubmitStart ==
  IF IsBlank(home.idea)
  THEN UNCHANGED <<home, net>>
  ELSE /\ home' = [home EXCEPT !.isLoading = TRUE, !.error = Null]
       /\ net' = [pc |-> "delay", query |-> home.idea, sent |-> 0]

\* a click on the submit button: a disabled button submits nothing
Submit ==
  /\ route = "home"
  /\ IF ButtonDisabled THEN UNCHANGED <<home, net>> ELSE HandleSubmitStart
  /\ lastOp' = [op |-> "submit", home |-> home, net |-> net, storage |-> storage]
  /\ UNCHANGED <<route, storage, rp>>
  /\ UNCHANGED <<trendsVars, orchVars, serviceVars>>

\* the 2000 ms timer ends and handleSubmit calls fetch
TimerFires ==
  /\ route = "home"
  /\ net.pc = "delay"
  /\ net' = [net EXCEPT !.pc = "fetch", !.sent = @ + 1]
  /\ lastOp' = [op |-> "fetch"]
  /\ UNCHANGED <<route, home, storage, rp>>
  /\ UNCHANGED <<trendsVars, orchVars, serviceVars>>

ThrowsUnlessStatusChecked(outcome) ==
  \/ outcome.kind = "rejected"
  \/ outcome.kind = "response" /\ ~CanParse(outcome.body)

\* the try block of handleSubmit throws: fetch rejected, !response.ok, or
\* response.json() met a body that is no JSON
Throws(outcome) ==
  \/ outcome.kind = "rejected"
  \/ outcome.kind = "response" /\ (~Ok(outcome.status) \/ ~CanParse(outcome.body))

FetchSettlesLeaking(outcome) ==
  /\ route = "home"
  /\ net.pc = "fetch"
  /\ net' = NetIdle
  /\ lastOp' = [op |-> "settle", outcome |-> outcome, storage |-> storage, sent |-> net.sent]
  /\ IF Throws(outcome)
     THEN /\ home' = [home EXCEPT
                 !.error = IF outcome.kind = "rejected" THEN "Failed to fetch"
                           ELSE IF ~Ok(outcome.status) THEN "API request failed: 500"
                           ELSE "Unexpected token < in JSON at position 0",
                 !.isLoading = FALSE]
          /\ UNCHANGED <<route, storage, rp>>
     ELSE /\ storage' = Item(Stringify(Parse(outcome.body)))
          /\ route' = "result"
          /\ rp' = ResultPageInit
          /\ UNCHANGED home
  /\ UNCHANGED <<trendsVars, orchVars, serviceVars>>

FetchSettlesRetrying(outcome) ==
  /\ route = "home"
  /\ net.pc = "fetch"
  /\ IF Throws(outcome) /\ net.sent < 2
     THEN /\ net' = [net EXCEPT !.sent = @ + 1]
          /\ lastOp' = [op |-> "fetch"]
          /\ UNCHANGED <<route, home, storage, rp>>
     ELSE /\ net' = NetIdle
          /\ lastOp' = [op |-> "settle", outcome |-> outcome, storage |-> storage,
                        sent |-> net.sent]
          /\ IF Throws(outcome)
             THEN /\ home' = [home EXCEPT !.error = GenericSubmitError, !.isLoading = FALSE]
                  /\ UNCHANGED <<route, storage, rp>>
             ELSE /\ storage' = Item(Stringify(Parse(outcome.body)))
                  /\ route' = "result"
                  /\ rp' = ResultPageInit
                  /\ UNCHANGED home
  /\ UNCHANGED <<trendsVars, orchVars, serviceVars>>

FetchSettlesKeeping(outcome) ==
  /\ route = "home"
  /\ net.pc = "fetch"
  /\ net' = NetIdle
  /\ lastOp' = [op |-> "settle", outcome |-> outcome, storage |-> storage, sent |-> net.sent]
  /\ IF Throws(outcome)
     THEN /\ home' = [home EXCEPT !.error = GenericSubmitError, !.isLoading = FALSE]
          /\ UNCHANGED <<route, storage, rp>>
     ELSE /\ storage' = IF storage.has THEN storage
                        ELSE Item(Stringify(Parse(outcome.body)))
          /\ route' = "result"
          /\ rp' = ResultPageInit
          /\ UNCHANGED home
  /\ UNCHANGED <<trendsVars, orchVars, serviceVars>>

\* handleSubmit from the await of fetch to its end
FetchSettles(outcome) ==
  /\ route = "home"
  /\ net.pc = "fetch"
  /\ net' = NetIdle
  /\ lastOp' = [op |-> "settle", outcome |-> outcome, storage |-> storage, sent |-> net.sent]
  /\ IF Throws(outcome)
     THEN /\ home' = [home EXCEPT !.error = GenericSubmitError, !.isLoading = FALSE]
          /\ UNCHANGED <<route, storage, rp>>
     ELSE /\ storage' = Item(Stringify(Parse(outcome.body)))
          /\ route' = "result"
          /\ rp' = ResultPageInit
          /\ UNCHANGED home
  /\ UNCHANGED <<trendsVars, orchVars, serviceVars>>

\* the browser loads /result from the form page: the load ends Home and its
\* handleSubmit
VisitResult ==
  /\ route = "home"
  /\ route' = "result"
  /\ rp' = ResultPageInit
  /\ home' = HomeInit
  /\ net' = NetIdle
  /\ lastOp' = [op |-> "visit"]
  /\ UNCHANGED storage
  /\ UNCHANGED <<trendsVars, orchVars, serviceVars>>

(***************************************************************************)
(* ResultPage                                                              *)
(***************************************************************************)
SetupEffectBodyUnguarded ==
  /\ rp' = [rp EXCEPT
       !.queue = Tail(@),
       !.setupRuns = @ + 1,
       !.processed = @ + 1,
       !.result = IF storage.has /\ CanParse(storage.text) THEN Parse(storage.text) ELSE @,
       !.error = IF ~storage.has THEN NoDataError
                 ELSE IF ~CanParse(storage.text) THEN InvalidDataError ELSE @,
       !.hasProcessed = TRUE,
       !.loading = FALSE]
  /\ UNCHANGED storage

SetupEffectBodyUncaught ==
  IF rp.hasProcessed
  THEN /\ rp' = [rp EXCEPT !.queue = Tail(@), !.setupRuns = @ + 1]
       /\ UNCHANGED storage
  ELSE /\ rp' = [rp EXCEPT
            !.queue = Tail(@),
            !.setupRuns = @ + 1,
            !.processed = @ + 1,
            !.result = IF storage.has /\ CanParse(storage.text)
                       THEN Parse(storage.text) ELSE @,
            !.error = IF ~storage.has THEN NoDataError ELSE @,
            !.hasProcessed = TRUE,
            !.loading = FALSE]
       /\ UNCHANGED storage

\* the first useEffect (deps [])
SetupEffectBody ==
  IF rp.hasProcessed
  THEN /\ rp' = [rp EXCEPT !.queue = Tail(@), !.setupRuns = @ + 1]
       /\ UNCHANGED storage
  ELSE /\ rp' = [rp EXCEPT
            !.queue = Tail(@),
            !.setupRuns = @ + 1,
            !.processed = @ + 1,
            !.result = IF storage.has /\ CanParse(storage.text)
                       THEN Parse(storage.text) ELSE @,
            !.error = IF ~storage.has THEN NoDataError
                      ELSE IF ~CanParse(storage.text) THEN InvalidDataError ELSE @,
            !.hasProcessed = TRUE,
            !.loading = FALSE]
       /\ UNCHANGED storage

SetupEffect ==
  /\ route = "result"
  /\ rp.queue # <<>>
  /\ Head(rp.queue) = "setup"
  /\ SetupEffectBody
  /\ lastOp' = [op |-> "setup"]
  /\ UNCHANGED <<route, home, net>>
  /\ UNCHANGED <<trendsVars, orchVars, serviceVars>>

\* the second useEffect (deps [result]); result is the value of the render it
\* belongs to
ClearEffectBody ==
  IF Truthy(rp.rendered) /\ ~rp.hasProcessed
  THEN /\ storage' = NoItem
       /\ rp' = [rp EXCEPT !.queue = Tail(@), !.hasProcessed = TRUE]
  ELSE /\ rp' = [rp EXCEPT !.queue = Tail(@)]
       /\ UNCHANGED storage

ClearEffect ==
  /\ route = "result"
  /\ rp.queue # <<>>
  /\ Head(rp.queue) = "clear"
  /\ ClearEffectBody
  /\ lastOp' = [op |-> "clear"]
  /\ UNCHANGED <<route, home, net>>
  /\ UNCHANGED <<trendsVars, orchVars, serviceVars>>

\* the results view reads a field of undefined while it renders result:
\* result.processing_time.toFixed, result.trends_data.interest_over_time, or
\* result.recommendations.map
RenderThrows(result) ==
  /\ Truthy(result)
  /\ \/ "processing_time" \notin DOMAIN result
     \/ "trends_data" \notin DOMAIN result
     \/ "recommendations" \notin DOMAIN result

\* React renders with the new result: the render is committed and the effect
\* that depends on result is scheduled again, or the render throws and the
\* component is unmounted with its effects unrun
Render ==
  /\ route = "result"
  /\ rp.queue = <<>>
  /\ ~rp.crashed
  /\ rp.rendered # rp.result
  /\ rp' = IF RenderThrows(rp.result)
           THEN [rp EXCEPT !.rendered = rp.result, !.crashed = TRUE]
           ELSE [rp EXCEPT !.rendered = rp.result, !.queue = <<"clear">>]
  /\ lastOp' = [op |-> "render"]
  /\ UNCHANGED <<route, home, net, storage>>
  /\ UNCHANGED <<trendsVars, orchVars, serviceVars>>

\* the rendering layer runs the effects of the mounted component again
\* (React StrictMode's second pass): same state, same ref
Reinvoke ==
  /\ route = "result"
  /\ ~rp.crashed
  /\ rp.reinvoked < MaxReinvoke
  /\ rp' = [rp EXCEPT !.queue = @ \o <<"setup", "clear">>, !.reinvoked = @ + 1]
  /\ lastOp' = [op |-> "reinvoke"]
  /\ UNCHANGED <<route, home, net, storage>>
  /\ UNCHANGED <<trendsVars, orchVars, serviceVars>>

\* the page is loaded again: a new mount, sessionStorage survives
Refresh ==
  /\ route = "result"
  /\ rp' = ResultPageInit
  /\ lastOp' = [op |-> "refresh"]
  /\ UNCHANGED <<route, home, net, storage>>
  /\ UNCHANGED <<trendsVars, orchVars, serviceVars>>

\* router.push('/') of the results view: Home mounts anew
NewAnalysis ==
  /\ route = "result"
  /\ ~rp.loading
  /\ ~rp.crashed
  /\ route' = "home"
  /\ home' = HomeInit
  /\ net' = NetIdle
  /\ lastOp' = [op |-> "new"]
  /\ UNCHANGED <<storage, rp>>
  /\ UNCHANGED <<trendsVars, orchVars, serviceVars>>

\* the text of the form page's error box; Null when the box is not rendered
FormErrorText == IF route = "home" THEN home.error ELSE Null

UnableToLoadError == "Unable to load analysis results"

\* the text of the results page's error view; Null when the page renders its
\* loading view or the result
ResultErrorText ==
  IF route # "result" \/ rp.loading \/ rp.crashed THEN Null
  ELSE IF rp.error # Null THEN rp.error
  ELSE IF ~Truthy(rp.result) THEN UnableToLoadError
  ELSE Null

\* what sessionStorage.getItem('validationResult') can find when the results
\* view mounts: nothing, an entry written by handleSubmit, or a text that is
\* not JSON (the storage belongs to the origin, not to the form)
StoredItems ==
  {NoItem} \cup {Item(t) : t \in UNION {BodyTexts(q) : q \in Ideas}}

\* /result is loaded directly
InitResultPage ==
  /\ route = "result"
  /\ home = HomeInit
  /\ net = NetIdle
  /\ storage \in StoredItems
  /\ rp = ResultPageInit
  /\ lastOp = [op |-> "load"]

\* the results view alone, from its mount
NextResultPage ==
  \/ SetupEffect
  \/ ClearEffect
  \/ Render
  \/ Reinvoke
  \/ Refresh

NextClient ==
  \/ \E s \in Ideas : SetIdea(s)
  \/ Submit
  \/ TimerFires
  \/ \E o \in Outcomes(net.query) : FetchSettles(o)
  \/ VisitResult
  \/ SetupEffect
  \/ ClearEffect
  \/ Render
  \/ Reinvoke
  \/ Refresh
  \/ NewAnalysis

(***************************************************************************)
(* Trends Provider (mcp-server): GET /api/trends and GET /api/health       *)
(***************************************************************************)
\* a query parameter the request does not carry
Undefined == "undefined"

DefaultDate == "today 12-m"
Dates == {"today 3-m"}
DateParams == {Undefined} \cup Dates

\* req.query.keywords: absent, a string, or an array (the parameter repeated)
KeywordAlphabet == {"a", "b", ",", " "}

\* the keywords of the example client and of the server's start-up message
ScenarioKeywords ==
  <<"c", "o", "f", "f", "e", "e", ",", "m", "i", "l", "k", ",", "b", "r", "e", "a", "d", ",",
    "p", "a", "s", "t", "a", ",", "s", "t", "e", "a", "k">>

KeywordParams ==
  {[kind |-> "absent"], [kind |-> "array"], [kind |-> "string", s |-> ScenarioKeywords]}
    \cup {[kind |-> "string", s |-> s] : s \in StringsOver(KeywordAlphabet, MaxKeywordsLen)}

\* the keywords of the requests that are in flight together
ConcurrentKeywordParams ==
  {[kind |-> "absent"], [kind |-> "array"],
   [kind |-> "string", s |-> <<>>],
   [kind |-> "string", s |-> <<",", " ">>],
   [kind |-> "string", s |-> <<"a">>],
   [kind |-> "string", s |-> <<"b", ",", " ", "a">>]}

KeywordsRequiredError == "Keywords parameter is required. Use comma-separated values like: ?keywords=coffee,milk,bread"
NoValidKeywordError == "At least one valid keyword is required"
SplitTypeError == "keywords.split is not a function"
UpstreamErrors == {"Invalid API key", "Google Trends hasn't returned any results for this query."}

\* String.prototype.split(','): the pieces between the commas, empty ones kept
RECURSIVE Split(_)
Split(s) ==
  IF \A i \in 1..Len(s) : s[i] # ","
  THEN <<s>>
  ELSE LET i == CHOOSE j \in 1..Len(s) : s[j] = "," /\ \A k \in 1..(j - 1) : s[k] # ","
       IN <<SubSeq(s, 1, i - 1)>> \o Split(SubSeq(s, i + 1, Len(s)))

\* Array.prototype.join(',')
RECURSIVE Join(_)
Join(parts) ==
  IF parts = <<>> THEN <<>>
  ELSE IF Len(parts) = 1 THEN parts[1]
  ELSE parts[1] \o <<",">> \o Join(Tail(parts))

KeywordListUntrimmed(s) == SelectSeq(Split(s), LAMBDA k : Len(k) > 0)

\* keywords.split(',').map(k => k.trim()).filter(k => k.length > 0)
KeywordList(s) ==
  SelectSeq([i \in 1..Len(Split(s)) |-> Trim(Split(s)[i])], LAMBDA k : Len(k) > 0)

Distinct(parts) ==
  SelectSeq([i \in 1..Len(parts) |->
               IF \E j \in 1..(i - 1) : parts[j] = parts[i] THEN <<>> ELSE parts[i]],
            LAMBDA k : Len(k) > 0)

NormalizeKeywordsDistinct(s) == Join(Distinct(KeywordList(s)))

\* q of the handler
NormalizeKeywords(s) == Join(KeywordList(s))

GetJsonParamsFirstOnly(q, date) ==
  [engine |-> "google_trends", q |-> Head(Split(q)), data_type |-> "TIMESERIES",
   api_key |-> "SERPAPI_KEY"]

\* the parameters the handler calls getJson with
GetJsonParams(q, date) ==
  [engine |-> "google_trends", q |-> q, data_type |-> "TIMESERIES", api_key |-> "SERPAPI_KEY"]

\* the weekly points of a series: a year of weeks
TimelinePoints == 52

\* the series the upstream can answer one query with
Seeds == {0, 1}

\* the interest in the k-th keyword in a week: a number of 0..100
Interest(seed, week, k) == (seed * 53 + week * 7 + k * 29) % 101

RECURSIVE SumInterest(_, _, _)
SumInterest(seed, week, k) ==
  IF week = 0 THEN 0 ELSE Interest(seed, week, k) + SumInterest(seed, week - 1, k)

TimelineMonthly(kws, seed, date) ==
  [week \in 1..12 |->
     [date |-> week,
      values |-> [k \in 1..Len(kws) |->
                    [query |-> kws[k], value |-> ToString(Interest(seed, week, k)),
                     extracted_value |-> Interest(seed, week, k)]]]]

\* interest_over_time.timeline_data: one point per week, each with one value per keyword
Timeline(kws, seed, date) ==
  [week \in 1..TimelinePoints |->
     [date |-> week,
      values |-> [k \in 1..Len(kws) |->
                    [query |-> kws[k], value |-> ToString(Interest(seed, week, k)),
                     extracted_value |-> Interest(seed, week, k)]]]]

\* interest_over_time.averages: one per keyword, the mean of its weekly values
Averages(kws, seed) ==
  [k \in 1..Len(kws) |->
     [query |-> kws[k], value |-> SumInterest(seed, TimelinePoints, k) \div TimelinePoints]]

\* what the upstream answers a call it serves: the search parameters it was given,
\* with its own default date range where none was given, and the series of the
\* keywords of q
UpstreamData(p, seed) ==
  LET date == IF "date" \in DOMAIN p THEN p.date ELSE DefaultDate IN
  [search_parameters |->
     [engine |-> p.engine, q |-> p.q, data_type |-> p.data_type, date |-> date],
   interest_over_time |->
     [timeline_data |-> Timeline(Split(p.q), seed, date),
      averages |-> Averages(Split(p.q), seed)]]

UpstreamReplies(p) ==
  {UpstreamData(p, seed) : seed \in Seeds} \cup {[error |-> e] : e \in UpstreamErrors}

Free == [st |-> "free"]
Hung == [st |-> "hung"]

NoExchange == [kind |-> "none"]

InitTrends ==
  /\ reqs = [i \in 1..MaxReqs |-> Free]
  /\ exchange = NoExchange

\* res.status(status).json(body) of a request the handler answers before any upstream call
Rejected(kw, dateParam, status, message) ==
  [kind |-> "response", path |-> "/api/trends", keywords |-> kw, dateParam |-> dateParam,
   status |-> status, body |-> [error |-> message], upstream |-> "not called",
   responses |-> 1]

\* a new connection takes the first slot that is free
FirstFree(i) == reqs[i] = Free /\ \A j \in 1..(i - 1) : reqs[j] # Free

\* app.get('/api/trends') up to the call of getJson
TrendsRequest(i, kw, dateParam) ==
  /\ FirstFree(i)
  /\ LET date == IF dateParam = Undefined THEN DefaultDate ELSE dateParam IN
     IF kw.kind = "absent" \/ (kw.kind = "string" /\ kw.s = <<>>)
     THEN /\ exchange' = Rejected(kw, dateParam, StatusBadRequest, KeywordsRequiredError)
          /\ UNCHANGED reqs
     ELSE IF kw.kind = "array"
     THEN /\ exchange' = Rejected(kw, dateParam, StatusServerError, SplitTypeError)
          /\ UNCHANGED reqs
     ELSE LET q == NormalizeKeywords(kw.s) IN
          IF q = <<>>
          THEN /\ exchange' = Rejected(kw, dateParam, StatusBadRequest, NoValidKeywordError)
               /\ UNCHANGED reqs
          ELSE /\ reqs' = [reqs EXCEPT ![i] =
                      [st |-> "waiting", keywords |-> kw, date |-> date,
                       params |-> GetJsonParams(q, date)]]
               /\ exchange' = [kind |-> "called", keywords |-> kw, dateParam |-> dateParam,
                               date |-> date, params |-> GetJsonParams(q, date)]
  /\ UNCHANGED <<clientVars, orchVars, serviceVars>>

GetJsonCallbackSharing(i, json) ==
  LET latest == CHOOSE j \in 1..MaxReqs :
                  /\ reqs[j].st = "waiting"
                  /\ \A k \in 1..MaxReqs : reqs[k].st = "waiting" => k <= j
  IN /\ reqs[i].st = "waiting"
     /\ reqs' = [reqs EXCEPT ![i] = Free]
     /\ exchange' =
          [kind |-> "response", path |-> "/api/trends", date |-> reqs[latest].date,
           keywords |-> reqs[latest].keywords,
           params |-> reqs[latest].params, upstream |-> "replied", reply |-> json,
           status |-> IF "error" \in DOMAIN json THEN StatusServerError ELSE StatusOK,
           body |-> IF "error" \in DOMAIN json THEN [error |-> json.error] ELSE json,
           responses |-> 1]
     /\ UNCHANGED <<clientVars, orchVars, serviceVars>>

GetJsonCallbackSubstituting(i, json) ==
  /\ reqs[i].st = "waiting"
  /\ reqs' = [reqs EXCEPT ![i] = Free]
  /\ exchange' =
       [kind |-> "response", path |-> "/api/trends", date |-> reqs[i].date,
        keywords |-> reqs[i].keywords,
        params |-> reqs[i].params, upstream |-> "replied", reply |-> json,
        status |-> StatusOK,
        body |-> IF "error" \in DOMAIN json THEN UpstreamData(reqs[i].params, 0) ELSE json,
        responses |-> 1]
  /\ UNCHANGED <<clientVars, orchVars, serviceVars>>

GetJsonCallbackBoth(i, json) ==
  /\ reqs[i].st = "waiting"
  /\ reqs' = [reqs EXCEPT ![i] = Free]
  /\ exchange' =
       [kind |-> "response", path |-> "/api/trends", date |-> reqs[i].date,
        keywords |-> reqs[i].keywords,
        params |-> reqs[i].params, upstream |-> "replied", reply |-> json,
        status |-> IF "error" \in DOMAIN json THEN StatusServerError ELSE StatusOK,
        body |-> IF "error" \in DOMAIN json THEN [error |-> json.error] ELSE json,
        responses |-> IF "error" \in DOMAIN json THEN 2 ELSE 1]
  /\ UNCHANGED <<clientVars, orchVars, serviceVars>>

\* the callback given to getJson: res.status(500).json on an error object, and
\* returns; res.json otherwise
GetJsonCallback(i, json) ==
  /\ reqs[i].st = "waiting"
  /\ reqs' = [reqs EXCEPT ![i] = Free]
  /\ exchange' =
       [kind |-> "response", path |-> "/api/trends", date |-> reqs[i].date,
        keywords |-> reqs[i].keywords,
        params |-> reqs[i].params, upstream |-> "replied", reply |-> json,
        status |-> IF "error" \in DOMAIN json THEN StatusServerError ELSE StatusOK,
        body |-> IF "error" \in DOMAIN json THEN [error |-> json.error] ELSE json,
        responses |-> 1]
  /\ UNCHANGED <<clientVars, orchVars, serviceVars>>

\* getJson's promise rejects (the upstream is unreachable or answers a non-200
\* status): the callback is never called and nothing awaits the promise
GetJsonRejects(i) ==
  /\ reqs[i].st = "waiting"
  /\ reqs' = [reqs EXCEPT ![i] = Hung]
  /\ exchange' = [kind |-> "unanswered", params |-> reqs[i].params]
  /\ UNCHANGED <<clientVars, orchVars, serviceVars>>

\* the caller of a request that is never answered closes the connection
CallerGivesUp(i) ==
  /\ reqs[i] = Hung
  /\ reqs' = [reqs EXCEPT ![i] = Free]
  /\ exchange' = [kind |-> "closed"]
  /\ UNCHANGED <<clientVars, orchVars, serviceVars>>

HealthProbing ==
  /\ exchange' =
       [kind |-> "response", path |-> "/api/health",
        status |-> IF \E i \in 1..MaxReqs : reqs[i] = Hung THEN 503 ELSE StatusOK,
        upstream |-> "not called", responses |-> 1,
        body |-> [status |-> IF \E i \in 1..MaxReqs : reqs[i] = Hung THEN "DOWN" ELSE "OK",
                  message |-> "Google Trends Server (SerpApi) is running"]]
  /\ UNCHANGED reqs
  /\ UNCHANGED <<clientVars, orchVars, serviceVars>>

\* app.get('/api/health')
Health ==
  /\ exchange' =
       [kind |-> "response", path |-> "/api/health", status |-> StatusOK,
        upstream |-> "not called", responses |-> 1,
        body |-> [status |-> "OK", message |-> "Google Trends Server (SerpApi) is running"]]
  /\ UNCHANGED reqs
  /\ UNCHANGED <<clientVars, orchVars, serviceVars>>

NextTrends ==
  \/ \E i \in 1..MaxReqs, kw \in ConcurrentKeywordParams, d \in DateParams :
       TrendsRequest(i, kw, d)
  \/ \E i \in 1..MaxReqs :
       /\ reqs[i].st = "waiting"
       /\ \E json \in UpstreamReplies(reqs[i].params) : GetJsonCallback(i, json)
  \/ \E i \in 1..MaxReqs : GetJsonRejects(i)
  \/ \E i \in 1..MaxReqs : CallerGivesUp(i)
  \/ Health

\* one request has arrived at a server that is handling no other
InitTrendsSerial ==
  /\ reqs = [i \in 1..MaxReqs |-> Free]
  /\ exchange \in {[kind |-> "arrived", keywords |-> kw, dateParam |-> d] :
                     kw \in KeywordParams, d \in DateParams}

\* the server handles the request that has arrived, to its end
NextTrendsSerial ==
  \/ /\ exchange.kind = "arrived"
     /\ TrendsRequest(1, exchange.keywords, exchange.dateParam)
  \/ /\ reqs[1].st = "waiting"
     /\ \E json \in UpstreamReplies(reqs[1].params) : GetJsonCallback(1, json)
  \/ GetJsonRejects(1)
  \/ CallerGivesUp(1)

(***************************************************************************)
(* Validation Orchestrator: validate and its batch variant                 *)
(***************************************************************************)
Queries == {"idea A", "idea B"}
Verdicts == {"BUILD", "VALIDATE", "PIVOT"}

\* what the language model can answer the structured prompt with: scores and a
\* verdict, in or out of the ranges it was asked for
ModelReplies ==
  {[opportunity_score |-> 7, risk_score |-> 4, recommendation |-> "BUILD"],
   [opportunity_score |-> 0, risk_score |-> 10, recommendation |-> "PIVOT"],
   [opportunity_score |-> 10, risk_score |-> 0, recommendation |-> "VALIDATE"],
   [opportunity_score |-> 11, risk_score |-> 4, recommendation |-> "BUILD"],
   [opportunity_score |-> 7, risk_score |-> -1, recommendation |-> "BUILD"],
   [opportunity_score |-> 7, risk_score |-> 4, recommendation |-> "MAYBE"]}

ScoreOkUnbounded(n) == TRUE

\* a score of a ValidationResult: an integer of 0..10
ScoreOk(n) == n \in 0..10

VerdictOkAnyString(v) == TRUE

\* the verdict of a ValidationResult
VerdictOk(v) == v \in Verdicts

\* the model's reply has the structure the prompt asked for
WellFormed(reply) ==
  /\ ScoreOk(reply.opportunity_score)
  /\ ScoreOk(reply.risk_score)
  /\ VerdictOk(reply.recommendation)

\* what the language model can answer when it answers well
ModelAnswers == {reply \in ModelReplies : WellFormed(reply)}

\* the fatal failures of the model-synthesis stage
ModelFailures == {"model call failed", "model call timed out", "model response unparseable"}

OrchIdle ==
  [pc |-> "idle", query |-> "", includeTrends |-> FALSE, keywords |-> <<>>,
   trends |-> "none", model |-> [status |-> "none"], result |-> JNull, log |-> <<>>]

BatchIdle ==
  [pc |-> "idle", queries |-> <<>>, includeTrends |-> FALSE, results |-> <<>>,
   response |-> JNull]

InitOrch ==
  /\ orch = OrchIdle
  /\ batch = BatchIdle

\* stage 1 begins
StartValidation(q, includeTrends) ==
  [OrchIdle EXCEPT !.pc = "keywords", !.query = q, !.includeTrends = includeTrends]

\* POST /validate
Validate(q, includeTrends) ==
  /\ orch.pc = "idle"
  /\ batch.pc = "idle"
  /\ orch' = StartValidation(q, includeTrends)
  /\ UNCHANGED batch
  /\ UNCHANGED <<clientVars, trendsVars, serviceVars>>

DeriveKeywordsSkipping(extracted) ==
  /\ orch.pc = "keywords"
  /\ orch' = [orch EXCEPT
       !.pc = "model",
       !.keywords = IF extracted THEN <<"keyword">> ELSE <<orch.query>>,
       !.log = Append(@, "keywords")]
  /\ UNCHANGED batch
  /\ UNCHANGED <<clientVars, trendsVars, serviceVars>>

\* stage 1: an extraction error falls back to the whole idea text as one keyword
DeriveKeywords(extracted) ==
  /\ orch.pc = "keywords"
  /\ orch' = [orch EXCEPT
       !.pc = "trends",
       !.keywords = IF extracted THEN <<"keyword">> ELSE <<orch.query>>,
       !.log = Append(@, "keywords")]
  /\ UNCHANGED batch
  /\ UNCHANGED <<clientVars, trendsVars, serviceVars>>

RetrieveTrendsAborting(available) ==
  /\ orch.pc = "trends"
  /\ orch' =
       IF orch.includeTrends /\ ~available
       THEN [orch EXCEPT
               !.pc = "done",
               !.trends = "unavailable",
               !.result = [type |-> "object", success |-> FALSE, query |-> orch.query,
                           recommendations |-> <<>>, error |-> "trends unavailable"],
               !.log = Append(@, "trends")]
       ELSE [orch EXCEPT
               !.pc = "model",
               !.trends = IF ~orch.includeTrends THEN "skipped" ELSE "data",
               !.log = Append(@, "trends")]
  /\ UNCHANGED batch
  /\ UNCHANGED <<clientVars, trendsVars, serviceVars>>

\* stage 2: the Trends Provider answers, is unavailable, or is not asked
RetrieveTrends(available) ==
  /\ orch.pc = "trends"
  /\ orch' = [orch EXCEPT
       !.pc = "model",
       !.trends = IF ~orch.includeTrends THEN "skipped"
                  ELSE IF available THEN "data" ELSE "unavailable",
       !.log = Append(@, "trends")]
  /\ UNCHANGED batch
  /\ UNCHANGED <<clientVars, trendsVars, serviceVars>>

ModelFailureResultFabricated(q, failure) ==
  [type |-> "object", success |-> TRUE, query |-> q, recommendations |-> <<"rec">>,
   opportunity_score |-> 5, risk_score |-> 5, recommendation |-> "VALIDATE",
   processing_time |-> 2]

\* the result of a request whose model-synthesis stage failed
ModelFailureResult(q, failure) ==
  [type |-> "object", success |-> FALSE, query |-> q, recommendations |-> <<>>,
   error |-> failure]

\* stage 3 ends with a fatal failure: the request ends with it
SynthesisFails(failure) ==
  /\ orch.pc = "model"
  /\ orch' = [orch EXCEPT
       !.pc = "done",
       !.model = [status |-> "failed", failure |-> failure],
       !.result = ModelFailureResult(orch.query, failure),
       !.log = Append(@, "model")]
  /\ UNCHANGED batch
  /\ UNCHANGED <<clientVars, trendsVars, serviceVars>>

\* stage 3 ends with the model's reply: an answer, or a reply without the
\* structure asked for, which is the failure 'unparseable'
Synthesizes(reply) ==
  /\ orch.pc = "model"
  /\ orch' =
       IF WellFormed(reply)
       THEN [orch EXCEPT
               !.pc = "assemble",
               !.model = [status |-> "ok", answer |-> reply],
               !.log = Append(@, "model")]
       ELSE [orch EXCEPT
               !.pc = "done",
               !.model = [status |-> "failed", failure |-> "model response unparseable"],
               !.result = ModelFailureResult(orch.query, "model response unparseable"),
               !.log = Append(@, "model")]
  /\ UNCHANGED batch
  /\ UNCHANGED <<clientVars, trendsVars, serviceVars>>

\* the result of a request whose stages all completed
AssembledResult(q, trends, answer) ==
  LET base ==
        [type |-> "object", success |-> TRUE, query |-> q,
         recommendations |->
           IF trends = "unavailable" THEN <<"rec", "trend data was unavailable">>
           ELSE <<"rec">>,
         opportunity_score |-> answer.opportunity_score,
         risk_score |-> answer.risk_score,
         recommendation |-> answer.recommendation,
         processing_time |-> 2]
  IN IF trends = "data"
     THEN [k \in DOMAIN base \cup {"trends_data"} |->
             IF k = "trends_data" THEN "series" ELSE base[k]]
     ELSE base

\* stage 4
Assemble ==
  /\ orch.pc = "assemble"
  /\ orch' = [orch EXCEPT
       !.pc = "done",
       !.result = AssembledResult(orch.query, orch.trends, orch.model.answer),
       !.log = Append(@, "assemble")]
  /\ UNCHANGED batch
  /\ UNCHANGED <<clientVars, trendsVars, serviceVars>>

\* the single request is answered
Respond ==
  /\ orch.pc = "done"
  /\ batch.pc = "idle"
  /\ orch' = OrchIdle
  /\ UNCHANGED batch
  /\ UNCHANGED <<clientVars, trendsVars, serviceVars>>

\* POST /validate/batch
ValidateBatch(qs, includeTrends) ==
  /\ orch.pc = "idle"
  /\ batch.pc = "idle"
  /\ batch' = [BatchIdle EXCEPT !.pc = "running", !.queries = qs, !.includeTrends = includeTrends]
  /\ UNCHANGED orch
  /\ UNCHANGED <<clientVars, trendsVars, serviceVars>>

\* the batch starts the validation of its next query
BatchNext ==
  /\ batch.pc = "running"
  /\ orch.pc = "idle"
  /\ Len(batch.results) < Len(batch.queries)
  /\ orch' = StartValidation(batch.queries[Len(batch.results) + 1], batch.includeTrends)
  /\ UNCHANGED batch
  /\ UNCHANGED <<clientVars, trendsVars, serviceVars>>

CountSuccess(rs) == Cardinality({i \in 1..Len(rs) : rs[i].success})

\* the answer of the batch
BatchResponse(qs, rs) ==
  [success |-> TRUE, results |-> rs, total_queries |-> Len(qs),
   successful_queries |-> CountSuccess(rs),
   failed_queries |-> Len(rs) - CountSuccess(rs)]

BatchAfterItemAborting(r) ==
  IF r.success
  THEN [batch EXCEPT !.results = Append(@, r)]
  ELSE [batch EXCEPT
          !.results = Append(@, r),
          !.pc = "done",
          !.response = BatchResponse(batch.queries, Append(batch.results, r))]

\* the batch after one of its items has ended with result r
BatchAfterItem(r) == [batch EXCEPT !.results = Append(@, r)]

\* one item of the batch has ended, well or not
BatchItemDone ==
  /\ batch.pc = "running"
  /\ orch.pc = "done"
  /\ batch' = BatchAfterItem(orch.result)
  /\ orch' = OrchIdle
  /\ UNCHANGED <<clientVars, trendsVars, serviceVars>>

BatchFinish ==
  /\ batch.pc = "running"
  /\ orch.pc = "idle"
  /\ Len(batch.results) >= Len(batch.queries)
  /\ batch' = [batch EXCEPT !.pc = "done", !.response = BatchResponse(batch.queries, batch.results)]
  /\ UNCHANGED orch
  /\ UNCHANGED <<clientVars, trendsVars, serviceVars>>

\* the batch is answered
BatchRespond ==
  /\ batch.pc = "done"
  /\ batch' = BatchIdle
  /\ UNCHANGED orch
  /\ UNCHANGED <<clientVars, trendsVars, serviceVars>>

QuerySeqs == UNION {[1..n -> Queries] : n \in 0..MaxBatch}

NextOrch ==
  \/ \E q \in Queries, t \in BOOLEAN : Validate(q, t)
  \/ \E x \in BOOLEAN : DeriveKeywords(x)
  \/ \E a \in BOOLEAN : RetrieveTrends(a)
  \/ \E f \in ModelFailures : SynthesisFails(f)
  \/ \E reply \in ModelReplies : Synthesizes(reply)
  \/ Assemble
  \/ Respond
  \/ \E qs \in QuerySeqs, t \in BOOLEAN : ValidateBatch(qs, t)
  \/ BatchNext
  \/ BatchItemDone
  \/ BatchFinish
  \/ BatchRespond

(***************************************************************************)
(* SaasValidatorService: the NestJS client of the Orchestrator's HTTP API   *)
(***************************************************************************)
\* HttpStatus.INTERNAL_SERVER_ERROR
InternalServerError == 500

ServiceMethods ==
  {"validateSaaSBusinessIdea", "validateSaaSBusinessIdeasBatch", "getTrendingSearches",
   "getRelatedQueries", "getInterestOverTime", "checkHealth"}

\* the path of the upstream request a method sends
ServicePath(method) ==
  CASE method = "validateSaaSBusinessIdea" -> "/validate"
    [] method = "validateSaaSBusinessIdeasBatch" -> "/validate/batch"
    [] method = "getTrendingSearches" -> "/trends/trending"
    [] method = "getRelatedQueries" -> "/trends/related-queries"
    [] method = "getInterestOverTime" -> "/trends/interest-over-time"
    [] method = "checkHealth" -> "/health"

\* the text a method's catch block puts before error.message
FailurePrefix(method) ==
  CASE method = "validateSaaSBusinessIdea" -> "Failed to validate SaaS business idea: "
    [] method = "validateSaaSBusinessIdeasBatch" ->
         "Failed to validate SaaS business ideas batch: "
    [] method = "getTrendingSearches" -> "Failed to get trending searches: "
    [] method = "getRelatedQueries" -> "Failed to get related queries: "
    [] method = "getInterestOverTime" -> "Failed to get interest over time: "
    [] method = "checkHealth" -> "Failed to check agent health: "

\* the calls of the service: a method and the request it is given
ServiceCalls ==
  {[method |-> "validateSaaSBusinessIdea", request |-> [query |-> q, include_trends |-> t]] :
     q \in Queries, t \in BOOLEAN}
    \cup {[method |-> "validateSaaSBusinessIdeasBatch", request |-> [queries |-> qs]] :
            qs \in QuerySeqs}
    \cup {[method |-> m, request |-> [country |-> "US"]] :
            m \in {"getTrendingSearches", "getRelatedQueries", "getInterestOverTime"}}
    \cup {[method |-> "checkHealth", request |-> [none |-> TRUE]]}

\* the bodies the upstream can answer a call with
ServiceBodies(call) ==
  CASE call.method = "validateSaaSBusinessIdea" ->
         {FullResult(call.request.query), NoTrendsResult(call.request.query),
          FailedResult(call.request.query)}
    [] call.method = "validateSaaSBusinessIdeasBatch" ->
         {BatchResponse(call.request.queries,
                        [i \in 1..Len(call.request.queries) |->
                           FailedResult(call.request.queries[i])]),
          [detail |-> "Agent not initialized"]}
    [] call.method = "checkHealth" ->
         {[status |-> "healthy", agent_ready |-> TRUE, google_trends_available |-> a] :
            a \in BOOLEAN}
    [] OTHER -> {[data |-> "trends"], [detail |-> "Not Found"]}

\* how the upstream request of a call ends: no response at all, or a response
HttpOutcomes(call) ==
  {[kind |-> "network", message |-> m] :
     m \in {"connect ECONNREFUSED 127.0.0.1:8001", "timeout of 30000ms exceeded"}}
    \cup {[kind |-> "response", status |-> st, data |-> b] :
            st \in {200, 201, 400, 404, 500, 503}, b \in ServiceBodies(call)}

\* the request ends in an error for firstValueFrom: no response, or a status
\* outside 2xx (axios' validateStatus)
HttpFails(outcome) == outcome.kind = "network" \/ ~Ok(outcome.status)

\* error.message of that error
ErrorMessage(outcome) ==
  IF outcome.kind = "network" THEN outcome.message
  ELSE "Request failed with status code " \o ToString(outcome.status)

HttpExceptionForwardingStatus(method, outcome) ==
  [kind |-> "thrown",
   status |-> IF outcome.kind = "response" THEN outcome.status ELSE InternalServerError,
   message |-> FailurePrefix(method) \o ErrorMessage(outcome)]

\* new HttpException(prefix + error.message, HttpStatus.INTERNAL_SERVER_ERROR)
HttpException(method, outcome) ==
  [kind |-> "thrown", status |-> InternalServerError,
   message |-> FailurePrefix(method) \o ErrorMessage(outcome)]

MethodResultThrowingOnFailure(method, outcome) ==
  IF HttpFails(outcome)
  THEN HttpException(method, outcome)
  ELSE IF "success" \in DOMAIN outcome.data /\ ~outcome.data.success
  THEN [kind |-> "thrown", status |-> InternalServerError,
        message |-> FailurePrefix(method) \o outcome.data.error]
  ELSE [kind |-> "returned", value |-> outcome.data]

\* what a method ends with: response.data returned, or the exception of its catch
MethodResult(method, outcome) ==
  IF HttpFails(outcome)
  THEN HttpException(method, outcome)
  ELSE [kind |-> "returned", value |-> outcome.data]

ServiceIdle == [pc |-> "idle"]

InitService == svc = ServiceIdle

\* a method is called: it sends its one upstream request and awaits it
ServiceCall(call) ==
  /\ svc.pc = "idle"
  /\ svc' = [pc |-> "awaiting", call |-> call, path |-> ServicePath(call.method), sent |-> 1]
  /\ UNCHANGED <<clientVars, trendsVars, orchVars>>

\* the upstream request ends and the method with it
ServiceSettles(outcome) ==
  /\ svc.pc = "awaiting"
  /\ svc' = [pc |-> "done", call |-> svc.call, path |-> svc.path, sent |-> svc.sent,
             upstream |-> outcome, result |-> MethodResult(svc.call.method, outcome)]
  /\ UNCHANGED <<clientVars, trendsVars, orchVars>>

\* the caller has the method's result
ServiceReturns ==
  /\ svc.pc = "done"
  /\ svc' = ServiceIdle
  /\ UNCHANGED <<clientVars, trendsVars, orchVars>>

NextService ==
  \/ \E call \in ServiceCalls : ServiceCall(call)
  \/ /\ svc.pc = "awaiting"
     /\ \E outcome \in HttpOutcomes(svc.call) : ServiceSettles(outcome)
  \/ ServiceReturns

(***************************************************************************)
(* Specifications: one per component, the components share no state; and   *)
(* one of the Trends Provider handling a single request of a wider range   *)
(***************************************************************************)
Init == InitClient /\ InitTrends /\ InitOrch /\ InitService

SpecClient == Init /\ [][NextClient]_vars

SpecTrends == Init /\ [][NextTrends]_vars

InitSerial == InitClient /\ InitTrendsSerial /\ InitOrch /\ InitService

SpecTrendsSerial == InitSerial /\ [][NextTrendsSerial]_vars

\* no call given to getJson stays pending for ever: one the callback does not
\* end is ended by the rejection of the promise (the HTTP client's socket
\* closes or times out)
SpecTrendsSerialLive ==
  InitSerial /\ [][NextTrendsSerial]_vars /\ WF_vars(GetJsonRejects(1))

InitMounted == InitResultPage /\ InitTrends /\ InitOrch /\ InitService

SpecResultPage == InitMounted /\ [][NextResultPage]_vars

SpecOrch == Init /\ [][NextOrch]_vars

SpecService == Init /\ [][NextService]_vars

\* the form and the service, which share nothing, each running while the other
\* is at rest
NextCallers ==
  \/ svc.pc = "idle" /\ NextClient
  \/ lastOp.op = "load" /\ NextService

SpecCallers == Init /\ [][NextCallers]_vars

(***************************************************************************)
(* Claims                                                                  *)
(***************************************************************************)
\* the results view has read a result and every effect of its mount has run
ResultShown ==
  /\ route = "result"
  /\ rp.queue = <<>>
  /\ rp.rendered = rp.result
  /\ Truthy(rp.result)
  /\ ~rp.crashed

\* C1: once the results view has read a ValidationResult from the hand-off
\* storage and its effects have run, the storage entry is gone, so that a
\* later mount finds no data.
C1_HandOffCleared == ResultShown => ~storage.has

\* the fetch of the last settle step answered 2xx with a result whose success is false
SettledWithHandledFailure ==
  /\ lastOp.op = "settle"
  /\ lastOp.outcome.kind = "response"
  /\ Ok(lastOp.outcome.status)
  /\ CanParse(lastOp.outcome.body)
  /\ Parse(lastOp.outcome.body) # JNull
  /\ ~Parse(lastOp.outcome.body).success

\* C2: a 2xx answer whose body has success false ends in the form page's
\* generic error; nothing is written to the hand-off storage and the client
\* does not navigate to /result.
C2_HandledFailureNotHandedOff ==
  SettledWithHandledFailure =>
    /\ route = "home"
    /\ home.error = GenericSubmitError
    /\ storage = lastOp.storage

\* C3: within one mount of the results view the setup effect reads and
\* processes the hand-off storage exactly once, however often it is invoked.
C3_ProcessedOncePerMount ==
  route = "result" => rp.processed = (IF rp.setupRuns > 0 THEN 1 ELSE 0)

C3_Witness == route = "result" /\ rp.setupRuns >= 2 /\ rp.processed = 1 /\ Truthy(rp.result)

\* a keywords parameter that is missing, empty, or made of commas and spaces only
InvalidKeywords(kw) ==
  \/ kw.kind = "absent"
  \/ kw.kind = "string" /\ \A i \in 1..Len(kw.s) : kw.s[i] \in {",", " "}

\* C4: a request to /api/trends whose keywords parameter is missing, empty or
\* made only of commas and whitespace is answered 400 with an {error} body,
\* without a call to the upstream and without any trend series.
C4_InvalidKeywordsRejected ==
  (/\ exchange.kind \in {"response", "called"}
   /\ "keywords" \in DOMAIN exchange
   /\ InvalidKeywords(exchange.keywords)) =>
    /\ exchange.kind = "response"
    /\ exchange.status = StatusBadRequest
    /\ DOMAIN exchange.body = {"error"}
    /\ exchange.upstream = "not called"
    /\ \A i \in 1..MaxReqs : reqs[i].st = "waiting" => reqs[i].params.q # <<>>

C4_Witness ==
  /\ exchange.kind = "response"
  /\ "keywords" \in DOMAIN exchange
  /\ exchange.keywords = [kind |-> "string", s |-> <<",", " ">>]
  /\ exchange.status = StatusBadRequest

\* C5: when the upstream's reply reports an error, the answer is an error
\* response that carries the upstream's message; an answer of 200 carries the
\* upstream's own data and nothing else.
C5_UpstreamFailureSurfaced ==
  (exchange.kind = "response" /\ exchange.upstream = "replied") =>
    IF "error" \in DOMAIN exchange.reply
    THEN /\ exchange.status # StatusOK
         /\ ~Ok(exchange.status)
         /\ exchange.body = [error |-> exchange.reply.error]
    ELSE exchange.status = StatusOK /\ exchange.body = exchange.reply

C5_Witness ==
  /\ exchange.kind = "response"
  /\ exchange.upstream = "replied"
  /\ "error" \in DOMAIN exchange.reply
  /\ exchange.status = StatusServerError

\* the fetch of the last settle step failed at the network level or answered non-2xx
SettledWithFailure ==
  /\ lastOp.op = "settle"
  /\ \/ lastOp.outcome.kind = "rejected"
     \/ lastOp.outcome.kind = "response" /\ lastOp.outcome.status \notin 200..299

\* C6: a request that fails at the network level or is answered non-2xx ends
\* handleSubmit with the generic error shown, isLoading false, the form page
\* still mounted and the hand-off storage as it was.
C6_FailedRequestRetryable ==
  SettledWithFailure =>
    /\ home.error = GenericSubmitError
    /\ ~home.isLoading
    /\ ~ButtonDisabled
    /\ route = "home"
    /\ net.pc = "idle"
    /\ storage = lastOp.storage

C6_Witness ==
  /\ SettledWithFailure
  /\ lastOp.outcome.kind = "response"
  /\ CanParse(lastOp.outcome.body)
  /\ lastOp.storage.has

AllWhitespace(s) == \A i \in 1..Len(s) : s[i] = " "

\* C7: a submit of an idea that is empty or whitespace-only starts no request
\* and leaves isLoading, error and the hand-off storage as they were.
C7_BlankIdeaSubmitsNothing ==
  (lastOp.op = "submit" /\ AllWhitespace(lastOp.home.idea)) =>
    /\ home = lastOp.home
    /\ net = lastOp.net
    /\ net.pc = "idle"
    /\ storage = lastOp.storage

C7_Witness ==
  /\ lastOp.op = "submit"
  /\ lastOp.home.idea = <<" ">>
  /\ lastOp.home.error = GenericSubmitError
  /\ net.pc = "idle"

\* C8: the date of the request (the parameter, or 'today 12-m' without it) is
\* passed on to the upstream and is the date of the answer's search_parameters.
C8_DatePassedThrough ==
  /\ exchange.kind = "called" =>
       "date" \in DOMAIN exchange.params /\ exchange.params.date = exchange.date
  /\ (exchange.kind = "response" /\ exchange.status = StatusOK
        /\ exchange.path = "/api/trends") =>
       exchange.body.search_parameters.date = exchange.date

\* C9: the answer of a batch of N queries holds N results, the i-th for the
\* i-th query, total_queries = N and successful_queries + failed_queries =
\* total_queries, whichever items failed.
C9_BatchOneResultPerQuery ==
  batch.pc = "done" =>
    LET r == batch.response IN
    /\ Len(r.results) = Len(batch.queries)
    /\ \A i \in 1..Len(r.results) : r.results[i].query = batch.queries[i]
    /\ r.total_queries = Len(batch.queries)
    /\ r.successful_queries + r.failed_queries = r.total_queries
    /\ r.failed_queries = Cardinality({i \in 1..Len(r.results) : ~r.results[i].success})

C9_Witness ==
  /\ batch.pc = "done"
  /\ Len(batch.queries) = 2
  /\ ~batch.response.results[1].success
  /\ batch.response.results[2].success
  /\ batch.response.failed_queries = 1

\* C10: a request whose model-synthesis stage failed ends with success false,
\* an error and no recommendations, and with no scores or verdict.
C10_ModelFailureSurfaced ==
  orch.model.status = "failed" =>
    /\ orch.pc = "done"
    /\ orch.result.success = FALSE
    /\ "error" \in DOMAIN orch.result
    /\ orch.result.error = orch.model.failure
    /\ orch.result.error # ""
    /\ orch.result.recommendations = <<>>
    /\ DOMAIN orch.result \cap {"opportunity_score", "risk_score", "recommendation"} = {}

C10_Witness == orch.pc = "done" /\ orch.model.status = "failed" /\ batch.pc = "running"

\* the note the recommendations carry when the trend data could not be had
TrendsNote == "trend data was unavailable"

\* C11: a validation with includeTrends whose trend retrieval found the Trends
\* Provider unavailable goes on to model synthesis; it ends with success false
\* only if model synthesis failed, and otherwise with success true and
\* recommendations that note the missing trend data.
C11_TrendsFailureDegrades ==
  (orch.includeTrends /\ orch.trends = "unavailable") =>
    /\ orch.pc \in {"model", "assemble", "done"}
    /\ orch.pc = "done" =>
         /\ orch.model.status \in {"ok", "failed"}
         /\ orch.result.success = (orch.model.status = "ok")
         /\ orch.result.success =>
              \E i \in 1..Len(orch.result.recommendations) :
                orch.result.recommendations[i] = TrendsNote

C11_Witness ==
  /\ orch.pc = "done"
  /\ orch.includeTrends
  /\ orch.trends = "unavailable"
  /\ orch.result.success
  /\ "trends_data" \notin DOMAIN orch.result

StageOrder == <<"keywords", "trends", "model", "assemble">>

\* C14: the stages a validation has completed are a prefix of keyword
\* derivation, trend retrieval, model synthesis, assembly; model synthesis is
\* reached only with trend retrieval finished (with data, without, or skipped),
\* and a result is assembled only with model synthesis finished.
C14_StagesInOrder ==
  /\ Len(orch.log) <= Len(StageOrder)
  /\ orch.log = SubSeq(StageOrder, 1, Len(orch.log))
  /\ orch.pc = "model" => orch.log = <<"keywords", "trends">> /\ orch.trends # "none"
  /\ orch.model.status # "none" => orch.trends # "none"
  /\ orch.pc = "assemble" => orch.log = <<"keywords", "trends", "model">>
  /\ (orch.pc = "done" /\ orch.result.success) =>
       orch.log = StageOrder /\ orch.model.status = "ok"

C14_Witness ==
  /\ orch.pc = "done"
  /\ orch.log = StageOrder
  /\ orch.trends = "data"
  /\ orch.result.success

\* the ValidationResults the Orchestrator is returning or has put into a batch
ReturnedResults ==
  (IF orch.pc = "done" THEN {orch.result} ELSE {})
    \cup {batch.results[i] : i \in 1..Len(batch.results)}
    \cup (IF batch.pc = "done"
          THEN {batch.response.results[i] : i \in 1..Len(batch.response.results)}
          ELSE {})

\* C15: every ValidationResult the Orchestrator returns with success true has
\* an opportunity_score and a risk_score, and a score a result carries is an
\* integer of 0..10, whatever the model replied.
C15_ScoresInRange ==
  \A r \in ReturnedResults :
    /\ r.success => {"opportunity_score", "risk_score"} \subseteq DOMAIN r
    /\ \A k \in {"opportunity_score", "risk_score"} \cap DOMAIN r : r[k] \in 0..10

C15_Witness ==
  /\ orch.pc = "done"
  /\ orch.result.success
  /\ orch.result.opportunity_score = 10
  /\ orch.result.risk_score = 0

\* C16: the recommendation of every ValidationResult the Orchestrator returns
\* is BUILD, VALIDATE or PIVOT, whatever the model replied; a result with
\* success true has one.
C16_VerdictInEnumeration ==
  \A r \in ReturnedResults :
    /\ r.success => "recommendation" \in DOMAIN r
    /\ "recommendation" \in DOMAIN r => r.recommendation \in {"BUILD", "VALIDATE", "PIVOT"}

C16_Witness ==
  /\ batch.pc = "done"
  /\ Len(batch.response.results) = 2
  /\ batch.response.results[1].success
  /\ batch.response.results[1].recommendation = "PIVOT"
  /\ ~batch.response.results[2].success
  /\ batch.response.results[2].error = "model response unparseable"

\* the positions that bound the comma-separated tokens of s: before its first
\* character, its commas, and after its last character
Bounds(s) == {0, Len(s) + 1} \cup {i \in 1..Len(s) : s[i] = ","}

\* the j-th of them, counted from 0
Bound(s, j) == CHOOSE b \in Bounds(s) : Cardinality({c \in Bounds(s) : c < b}) = j

\* the j-th comma-separated token of s
Token(s, j) == SubSeq(s, Bound(s, j - 1) + 1, Bound(s, j) - 1)

Tokens(s) == [j \in 1..(Cardinality(Bounds(s)) - 1) |-> Token(s, j)]

\* t without the spaces around it
Core(t) ==
  LET inked == {i \in 1..Len(t) : t[i] # " "} IN
  IF inked = {} THEN <<>>
  ELSE SubSeq(t, CHOOSE i \in inked : \A j \in inked : i <= j,
                 CHOOSE i \in inked : \A j \in inked : i >= j)

\* the keywords a keywords parameter asks for
RequestedKeywords(s) ==
  SelectSeq([j \in 1..Len(Tokens(s)) |-> Core(Tokens(s)[j])], LAMBDA t : t # <<>>)

\* the answer is a trend series
SeriesReturned ==
  /\ exchange.kind = "response"
  /\ exchange.path = "/api/trends"
  /\ exchange.status = StatusOK

\* C12: the series that answers a request has one average per requested
\* keyword, in the request's order, and each of its timeline points has one
\* value per requested keyword, in the same order.
C12_NoKeywordDropped ==
  SeriesReturned =>
    LET kws == RequestedKeywords(exchange.keywords.s)
        series == exchange.body.interest_over_time
    IN /\ Len(kws) >= 1
       /\ Len(series.averages) = Len(kws)
       /\ \A k \in 1..Len(kws) : series.averages[k].query = kws[k]
       /\ \A w \in 1..Len(series.timeline_data) :
            /\ Len(series.timeline_data[w].values) = Len(kws)
            /\ \A k \in 1..Len(kws) : series.timeline_data[w].values[k].query = kws[k]

C12_Witness ==
  /\ SeriesReturned
  /\ exchange.keywords.s = <<"b", ",", ",", "a">>
  /\ Len(exchange.body.interest_over_time.averages) = 2

\* C13: the q the handler gives the upstream has as its comma-separated
\* tokens exactly the tokens of the keywords parameter, each without the
\* spaces around it, the empty ones left out, in the parameter's order and
\* with duplicates kept.
C13_KeywordListSent ==
  exchange.kind = "called" =>
    /\ Tokens(exchange.params.q) = RequestedKeywords(exchange.keywords.s)
    /\ reqs[1].st = "waiting"
    /\ reqs[1].params = exchange.params

C13_Witness ==
  /\ exchange.kind = "called"
  /\ exchange.keywords.s = <<" ", "a", ",", "a">>
  /\ exchange.params.q = <<"a", ",", "a">>

EndsOnItsOwn(i) ==
  /\ reqs'[i] \in {Free, Hung}
  /\ \A j \in 1..MaxReqs \ {i} : reqs'[j] = reqs[j]
  /\ exchange'.kind \in {"response", "unanswered"}
  /\ exchange'.params = reqs[i].params
  /\ exchange'.kind = "response" =>
       /\ exchange'.keywords = reqs[i].keywords
       /\ exchange'.date = reqs[i].date

\* C18: with requests in flight together and their callbacks in any order,
\* each answer carries the q of its own keywords and the upstream's reply to
\* its own call and nothing else, and a step that ends one request neither
\* uses nor changes what the others hold.
C18_RequestsIndependent ==
  /\ []((exchange.kind = "response" /\ exchange.upstream = "replied") =>
          /\ Tokens(exchange.params.q) = RequestedKeywords(exchange.keywords.s)
          /\ exchange.reply \in UpstreamReplies(exchange.params)
          /\ exchange.body = (IF "error" \in DOMAIN exchange.reply
                              THEN [error |-> exchange.reply.error]
                              ELSE exchange.reply))
  /\ [][\A i \in 1..MaxReqs :
          reqs[i].st = "waiting" => (reqs'[i] = reqs[i] \/ EndsOnItsOwn(i))]_vars

C18_Witness ==
  /\ exchange.kind = "response"
  /\ exchange.upstream = "replied"
  /\ exchange.status = StatusOK
  /\ exchange.keywords.s = <<"a">>
  /\ reqs[1].st = "waiting"
  /\ reqs[1].keywords.s = <<"b", ",", " ", "a">>
  /\ reqs[2] = Free

\* C20: the health endpoint can answer in every state of the server, and its
\* answer is 200 with status 'OK' and a message, whatever requests are
\* waiting for the upstream or were left unanswered by it.
C20_HealthAlwaysOk ==
  /\ ENABLED Health
  /\ (exchange.kind = "response" /\ exchange.path = "/api/health") =>
       /\ exchange.status = 200
       /\ exchange.body.status = "OK"
       /\ DOMAIN exchange.body = {"status", "message"}
       /\ exchange.body.message \in STRING
       /\ exchange.upstream = "not called"

C20_Witness ==
  /\ exchange.kind = "response"
  /\ exchange.path = "/api/health"
  /\ exchange.status = 200
  /\ reqs[1] = Hung
  /\ reqs[2].st = "waiting"

\* C19: the form page's error box shows nothing or its one fixed message, and
\* the results page's error view shows one of its three fixed messages; no
\* text of an exception, of a status or of the server's answer is shown.
C19_OnlyFixedErrorTexts ==
  /\ FormErrorText \in {Null, "Failed to validate idea. Please try again."}
  /\ ResultErrorText \in
       {Null, "No result data found. Please start a new analysis.",
        "Invalid result data format. Please start a new analysis.",
        "Unable to load analysis results"}
  /\ (route = "result" /\ Truthy(rp.result) /\ "error" \in DOMAIN rp.result) =>
       ResultErrorText # rp.result.error

C19_Witness ==
  /\ lastOp.op = "settle"
  /\ lastOp.outcome.kind = "response"
  /\ lastOp.outcome.status = StatusServerError
  /\ CanParse(lastOp.outcome.body)
  /\ Parse(lastOp.outcome.body) # JNull
  /\ "error" \in DOMAIN Parse(lastOp.outcome.body)
  /\ FormErrorText = GenericSubmitError

\* the upstream request of the call that has ended failed: no response, or a
\* status outside 2xx
UpstreamCallFailed ==
  /\ svc.pc = "done"
  /\ \/ svc.upstream.kind = "network"
     \/ svc.upstream.kind = "response" /\ svc.upstream.status \notin 200..299

\* the prefixes of the exception messages, by method
MessagePrefixes ==
  [validateSaaSBusinessIdea |-> "Failed to validate SaaS business idea: ",
   validateSaaSBusinessIdeasBatch |-> "Failed to validate SaaS business ideas batch: ",
   getTrendingSearches |-> "Failed to get trending searches: ",
   getRelatedQueries |-> "Failed to get related queries: ",
   getInterestOverTime |-> "Failed to get interest over time: ",
   checkHealth |-> "Failed to check agent health: "]

\* C21: a method whose upstream request failed, by a network error or by any
\* status outside 2xx, ends with an HttpException of status 500 whose message
\* is the method's prefix followed by the upstream error's message, and with
\* no value.
C21_FailureBecomesHttp500 ==
  UpstreamCallFailed =>
    /\ svc.result.kind = "thrown"
    /\ svc.result.status = 500
    /\ "value" \notin DOMAIN svc.result
    /\ svc.result.message =
         MessagePrefixes[svc.call.method]
           \o (IF svc.upstream.kind = "network" THEN svc.upstream.message
               ELSE "Request failed with status code " \o ToString(svc.upstream.status))

C21_Witness ==
  /\ UpstreamCallFailed
  /\ svc.call.method = "checkHealth"
  /\ svc.upstream.kind = "response"
  /\ svc.upstream.status = 404
  /\ svc.result.message = "Failed to check agent health: Request failed with status code 404"

\* C22: validateSaaSBusinessIdea whose upstream request ended with a 2xx
\* status returns the upstream's body as it is; a body with success false and
\* an error is returned like any other and nothing is thrown.
C22_BodyReturnedUnchanged ==
  (/\ svc.pc = "done"
   /\ svc.call.method = "validateSaaSBusinessIdea"
   /\ svc.upstream.kind = "response"
   /\ svc.upstream.status \in 200..299) =>
    /\ svc.result.kind = "returned"
    /\ svc.result.value = svc.upstream.data
    /\ DOMAIN svc.result = {"kind", "value"}

C22_Witness ==
  /\ svc.pc = "done"
  /\ svc.call.method = "validateSaaSBusinessIdea"
  /\ svc.upstream.kind = "response"
  /\ svc.upstream.status = 200
  /\ ~svc.upstream.data.success
  /\ svc.result.kind = "returned"
  /\ svc.result.value.error = "model failure"

\* C23: a form submission sends one request and a service method call sends
\* one request; a request that failed is reported (the form's generic error,
\* the method's exception) and is not sent again.
C23_NoRetry ==
  /\ [](/\ net.pc = "fetch" => net.sent = 1
        /\ lastOp.op = "settle" =>
             /\ lastOp.sent = 1
             /\ net.pc = "idle"
             /\ Throws(lastOp.outcome) => home.error = GenericSubmitError
        /\ svc.pc \in {"awaiting", "done"} => svc.sent = 1
        /\ (svc.pc = "done" /\ HttpFails(svc.upstream)) => svc.result.kind = "thrown")
  /\ [][/\ net'.sent # net.sent => (net'.sent = 0 \/ (net.pc = "delay" /\ net'.sent = 1))
        /\ svc.pc = "done" => svc'.pc \in {"done", "idle"}
        /\ (svc.pc = "awaiting" /\ svc'.pc # "awaiting") =>
             svc'.pc = "done" /\ svc'.sent = 1]_vars

C23_Witness ==
  /\ lastOp.op = "settle"
  /\ Throws(lastOp.outcome)
  /\ lastOp.sent = 1
  /\ net.pc = "idle"
  /\ home.error = GenericSubmitError

\* a value the Orchestrator's contract permits as a ValidationResult: a result
\* with success true, with or without trend data, or one with success false
\* and an error
PermittedResult(r) ==
  /\ Truthy(r)
  /\ {"success", "query", "recommendations"} \subseteq DOMAIN r
  /\ IF r.success
     THEN {"opportunity_score", "risk_score", "recommendation", "processing_time"}
            \subseteq DOMAIN r
     ELSE "error" \in DOMAIN r

\* C24: with a permitted ValidationResult read from the hand-off storage, the
\* results view renders the result or its error view; its render never throws.
C24_ViewNeverThrows ==
  (route = "result" /\ PermittedResult(rp.result)) => ~rp.crashed

\* C25: a request with valid keywords, for which the handler has called the
\* upstream, is eventually answered, whether the upstream replies with data,
\* replies with an error, or fails without a call of the callback.
C25_EveryRequestAnswered ==
  (reqs[1].st = "waiting") ~> (exchange.kind = "response" /\ exchange.path = "/api/trends")

\* C26: every response is the only one its request gets. A 400 for invalid
\* keywords comes with no upstream call started and none left pending by its
\* handler; the upstream callback answers an error object with the 500 alone and
\* any other reply with the upstream JSON alone, and ends its request.
C26_OneResponsePerRequest ==
  /\ [](exchange.kind = "response" =>
         /\ exchange.responses = 1
         /\ (exchange.status = StatusBadRequest) => (exchange.upstream = "not called")
         /\ (exchange.upstream = "replied") =>
              (IF "error" \in DOMAIN exchange.reply
               THEN exchange.status = StatusServerError
                    /\ exchange.body = [error |-> exchange.reply.error]
               ELSE exchange.status = StatusOK /\ exchange.body = exchange.reply))
  /\ [][((exchange'.kind = "response" /\ exchange'.upstream = "not called")
             => (reqs' = reqs))
         /\
         ((exchange'.kind = "response" /\ exchange'.upstream = "replied")
             => (\E i \in 1..MaxReqs :
                   /\ reqs[i].st = "waiting"
                   /\ reqs' = [reqs EXCEPT ![i] = Free]))]_vars

C26_Witness ==
  /\ exchange.kind = "response"
  /\ exchange.upstream = "replied"
  /\ "error" \in DOMAIN exchange.reply
  /\ exchange.status = StatusServerError
  /\ exchange.responses = 1

\* C27: a submission that succeeds replaces whatever the hand-off storage held
\* by its own response and navigates to the results view; nothing else writes
\* the storage, so a failed or an empty submit leaves the earlier entry; and
\* the result the results view holds once its setup effect has run is the
\* stored response, that of the most recent successful submission.
C27_LatestSubmissionShown ==
  /\ []((lastOp.op = "settle" /\ ~Throws(lastOp.outcome)) =>
         /\ route = "result"
         /\ storage = Item(Stringify(Parse(lastOp.outcome.body)))
         /\ Parse(storage.text) = Parse(lastOp.outcome.body))
  /\ []((route = "result" /\ rp.processed >= 1 /\ storage.has /\ CanParse(storage.text))
         => (rp.result = Parse(storage.text) /\ rp.error = Null))
  /\ [][(storage' # storage) =>
          (lastOp'.op = "settle" /\ ~Throws(lastOp'.outcome))]_vars
  /\ [][(lastOp'.op = "submit" \/ (lastOp'.op = "settle" /\ Throws(lastOp'.outcome)))
          => (storage' = storage)]_vars

C27_Witness ==
  /\ lastOp.op = "settle"
  /\ ~Throws(lastOp.outcome)
  /\ lastOp.storage.has
  /\ lastOp.storage # storage
  /\ route = "result"
  /\ storage = Item(Stringify(Parse(lastOp.outcome.body)))

\* C28 as stated: once the setup effect has run, loading is false and exactly
\* one of result and error is set.
C28_ExactlyOneOfResultOrError ==
  (route = "result" /\ rp.processed >= 1) =>
    (~rp.loading /\ (Truthy(rp.result) <=> rp.error = Null))

\* C28, amended: once the setup effect has run, loading is false and result and
\* error are never both set; neither is set only when the stored text is the
\* JSON null, and then the view shows its fallback error text. A stored text
\* that does not parse gives the 'Invalid result data format' error with no
\* result, the effect throws nothing and leaves the storage as it was.
C28_SetupEndsLoading ==
  /\ []((route = "result" /\ rp.processed >= 1) =>
         /\ ~rp.loading
         /\ ~(Truthy(rp.result) /\ rp.error # Null)
         /\ (~Truthy(rp.result) /\ rp.error = Null) =>
              (storage.has /\ CanParse(storage.text) /\ Parse(storage.text) = JNull
               /\ ResultErrorText = UnableToLoadError)
         /\ (storage.has /\ ~CanParse(storage.text)) =>
              (rp.error = InvalidDataError /\ ~Truthy(rp.result) /\ ~rp.crashed
               /\ ResultErrorText = InvalidDataError))
  /\ [][(lastOp'.op = "setup") => (storage' = storage)]_vars

C28_Witness ==
  /\ route = "result"
  /\ lastOp.op = "setup"
  /\ rp.processed = 1
  /\ storage.has
  /\ ~CanParse(storage.text)
  /\ rp.error = InvalidDataError
  /\ ~rp.loading

\* C29: on the form page isLoading is true exactly while the one request of
\* the last submit is under way, for the idea text that was submitted. It
\* becomes true only by a submit of a non-blank idea, and false again only
\* when the request fails or the page is left; a request that succeeds leaves
\* it true and navigates. While it is true, a submit starts nothing and the
\* idea text stays as submitted.
C29_OneRequestInFlight ==
  /\ []((route = "home") =>
         /\ home.isLoading <=> (net.pc # "idle")
         /\ home.isLoading => (net.query = home.idea /\ net.sent <= 1))
  /\ []((lastOp.op = "settle") =>
         IF Throws(lastOp.outcome)
         THEN route = "home" /\ ~home.isLoading
         ELSE route = "result" /\ home.isLoading)
  /\ [][(route = "home" /\ home.isLoading /\ route' = "home") =>
          /\ home'.idea = home.idea
          /\ (net' = net) \/ (lastOp'.op \in {"fetch", "settle"})
          /\ (lastOp'.op = "submit") => (home' = home /\ net' = net)]_vars
  /\ [][(home.isLoading /\ ~home'.isLoading) =>
          ((lastOp'.op = "settle" /\ Throws(lastOp'.outcome)) \/ route' # route)]_vars
  /\ [][(~home.isLoading /\ home'.isLoading) =>
          (lastOp'.op = "submit" /\ ~IsBlank(home.idea) /\ net'.pc = "delay"
           /\ net'.query = home.idea)]_vars

C29_Witness ==
  /\ route = "home"
  /\ lastOp.op = "submit"
  /\ lastOp.home.isLoading
  /\ lastOp.net.pc = "fetch"
  /\ home.isLoading
  /\ net = lastOp.net

====
